---- MODULE Spec2Model ----
(***************************************************************************)
(* Model of check_events.py: one run of main() loads state.json, extracts  *)
(* the event cards of the listing page, diffs them against the previous    *)
(* state, sends at most one ntfy notification and rewrites state.json and  *)
(* the auxiliary outputs when the payload changed.                         *)
(*                                                                         *)
(* Text is kept as TLA+ strings and handled character by character, the    *)
(* way the Python string methods and the regular expression handle it.     *)
(***************************************************************************)
EXTENDS Integers, Sequences, FiniteSets, TLC

(***************************************************************************)
(* Characters and the str methods the program uses                         *)
(***************************************************************************)

\* printable ASCII in code point order: code points 32..95 and 97..126
AsciiLo == " !\"#$%&'()*+,-./0123456789:;<=>?@ABCDEFGHIJKLMNOPQRSTUVWXYZ[\\]^_"

AsciiHi == "abcdefghijklmnopqrstuvwxyz{|}~"

CharSet ==
  {SubSeq(AsciiLo, i, i) : i \in 1..Len(AsciiLo)} \cup
  {SubSeq(AsciiHi, i, i) : i \in 1..Len(AsciiHi)} \cup {"\t", "\n"}

\* code point of a character (str comparison is by code point)
ord == [c \in CharSet |->
          IF c = "\t" THEN 9
          ELSE IF c = "\n" THEN 10
          ELSE IF \E i \in 1..Len(AsciiLo) : SubSeq(AsciiLo, i, i) = c
          THEN 31 + CHOOSE i \in 1..Len(AsciiLo) : SubSeq(AsciiLo, i, i) = c
          ELSE 96 + CHOOSE i \in 1..Len(AsciiHi) : SubSeq(AsciiHi, i, i) = c]

chr(n) == IF n < 96 THEN SubSeq(AsciiLo, n - 31, n - 31) ELSE SubSeq(AsciiHi, n - 96, n - 96)

\* the characters matched by \s and removed by str.strip()
Whitespace == {" ", "\t", "\n"}

Digits == {"0", "1", "2", "3", "4", "5", "6", "7", "8", "9"}

upperChar == [c \in CharSet |-> IF ord[c] \in 97..122 THEN chr(ord[c] - 32) ELSE c]

lowerChar == [c \in CharSet |-> IF ord[c] \in 65..90 THEN chr(ord[c] + 32) ELSE c]

First(s) == SubSeq(s, 1, 1)

Rest(s) == SubSeq(s, 2, Len(s))

RECURSIVE upper(_)
upper(s) == IF s = "" THEN "" ELSE upperChar[First(s)] \o upper(Rest(s))

RECURSIVE lower(_)
lower(s) == IF s = "" THEN "" ELSE lowerChar[First(s)] \o lower(Rest(s))

RECURSIVE lstrip(_)
lstrip(s) == IF s # "" /\ First(s) \in Whitespace THEN lstrip(Rest(s)) ELSE s

RECURSIVE rstrip(_)
rstrip(s) ==
  IF s # "" /\ SubSeq(s, Len(s), Len(s)) \in Whitespace
  THEN rstrip(SubSeq(s, 1, Len(s) - 1))
  ELSE s

strip(s) == rstrip(lstrip(s))

\* str.rstrip("/")
RECURSIVE rstripSlash(_)
rstripSlash(s) ==
  IF s # "" /\ SubSeq(s, Len(s), Len(s)) = "/"
  THEN rstripSlash(SubSeq(s, 1, Len(s) - 1))
  ELSE s

startswith(s, p) == Len(s) >= Len(p) /\ SubSeq(s, 1, Len(p)) = p

\* the `in` operator on two strings
contains(s, p) == \E i \in 1..(Len(s) - Len(p) + 1) : SubSeq(s, i, i + Len(p) - 1) = p

\* str.replace(old, new)
RECURSIVE replace(_, _, _)
replace(s, old, new) ==
  IF s = "" THEN ""
  ELSE IF startswith(s, old) THEN new \o replace(SubSeq(s, Len(old) + 1, Len(s)), old, new)
  ELSE First(s) \o replace(Rest(s), old, new)

\* s < t on str: lexicographic by code point, a proper prefix is smaller
RECURSIVE strLess(_, _)
strLess(s, t) ==
  IF t = "" THEN FALSE
  ELSE IF s = "" THEN TRUE
  ELSE IF First(s) = First(t) THEN strLess(Rest(s), Rest(t))
  ELSE ord[First(s)] < ord[First(t)]

\* re.sub(r"\s+", " ", s): every run of whitespace becomes one space
RECURSIVE collapse(_)
collapse(s) ==
  IF s = "" THEN ""
  ELSE IF First(s) \in Whitespace THEN " " \o collapse(lstrip(s))
  ELSE First(s) \o collapse(Rest(s))

norm(s) == strip(collapse(s))

normalize_status(s) == replace(upper(norm(s)), "WAIT LISTED", "WAITLISTED")

\* int() of a non-empty string of decimal digits
RECURSIVE int(_)
int(s) ==
  IF s = "" THEN 0
  ELSE 10 * int(SubSeq(s, 1, Len(s) - 1)) + (ord[SubSeq(s, Len(s), Len(s))] - 48)

\* str() of a natural number: decimal, no leading zeros
RECURSIVE str(_)
str(n) == IF n < 10 THEN chr(48 + n) ELSE str(n \div 10) \o chr(48 + (n % 10))

(***************************************************************************)
(* Dates                                                                   *)
(***************************************************************************)

MonthNames == <<"JANUARY", "FEBRUARY", "MARCH", "APRIL", "MAY", "JUNE", "JULY",
                "AUGUST", "SEPTEMBER", "OCTOBER", "NOVEMBER", "DECEMBER">>

MONTHS == [n \in {MonthNames[i] : i \in 1..12} |-> CHOOSE i \in 1..12 : MonthNames[i] = n]

\* MONTH_BY_NUM.get(month, "")
MONTH_BY_NUM(month) == IF month \in 1..12 THEN MonthNames[month] ELSE ""

NoMatch == [matched |-> FALSE, mon |-> "", day |-> "", year |-> ""]

AllDigits(s) == \A i \in 1..Len(s) : SubSeq(s, i, i) \in Digits

\* DATE_HDR_RE.match(s): ^\s*(MONTH)\s+(\d{1,2}),\s*(\d{4})\s*$ with re.I;
\* the three groups are returned as matched
DATE_HDR_RE(s) ==
  LET t0 == lstrip(s)
      head == upper(IF Len(t0) > 9 THEN SubSeq(t0, 1, 9) ELSE t0)
      names == {n \in DOMAIN MONTHS : startswith(head, n)}
  IN IF names = {} THEN NoMatch
     ELSE
       LET name == CHOOSE n \in names : TRUE
           mon == SubSeq(t0, 1, Len(name))
           t1 == SubSeq(t0, Len(name) + 1, Len(t0))
           t2 == lstrip(t1)
           nday == IF Len(t2) >= 3 /\ AllDigits(SubSeq(t2, 1, 2)) /\ SubSeq(t2, 3, 3) = "," THEN 2
                   ELSE IF Len(t2) >= 2 /\ AllDigits(SubSeq(t2, 1, 1)) /\ SubSeq(t2, 2, 2) = "," THEN 1
                   ELSE 0
           t3 == lstrip(SubSeq(t2, nday + 2, Len(t2)))
       IN IF t1 = "" \/ First(t1) \notin Whitespace \/ nday = 0 THEN NoMatch
          ELSE IF Len(t3) < 4 \/ ~AllDigits(SubSeq(t3, 1, 4)) THEN NoMatch
          ELSE IF lstrip(SubSeq(t3, 5, Len(t3))) # "" THEN NoMatch
          ELSE [matched |-> TRUE, mon |-> mon, day |-> SubSeq(t2, 1, nday),
                year |-> SubSeq(t3, 1, 4)]

\* Optional[Tuple[int, int, int]]: None is the empty tuple
None == <<>>

\* the (year, month, day) of a match m of DATE_HDR_RE, None without a match
MatchDate(m) ==
  IF ~m.matched THEN None
  ELSE IF upper(m.mon) \notin DOMAIN MONTHS THEN None
  ELSE <<int(m.year), MONTHS[upper(m.mon)], int(m.day)>>

parse_date_header(s) == MatchDate(DATE_HDR_RE(norm(s)))

IsLeap(year) == year % 4 = 0 /\ (year % 100 # 0 \/ year % 400 = 0)

DaysInMonth(year, month) ==
  IF month = 2 THEN (IF IsLeap(year) THEN 29 ELSE 28)
  ELSE IF month \in {4, 6, 9, 11} THEN 30 ELSE 31

\* datetime(year, month, day) does not raise ValueError
ValidDate(year, month, day) ==
  /\ year \in 1..9999
  /\ month \in 1..12
  /\ day \in 1..DaysInMonth(year, month)

RECURSIVE DaysBeforeMonth(_, _)
DaysBeforeMonth(year, month) ==
  IF month = 1 THEN 0 ELSE DaysBeforeMonth(year, month - 1) + DaysInMonth(year, month - 1)

\* datetime(year, month, day).toordinal(): 1 is January 1 of year 1
Ordinal(year, month, day) ==
  LET y == year - 1
  IN y * 365 + (y \div 4) - (y \div 100) + (y \div 400) + DaysBeforeMonth(year, month) + day

\* datetime(year, month, day).weekday(): Mon=0..Sun=6
weekday(year, month, day) == (Ordinal(year, month, day) + 6) % 7

weekday_abbrev(year, month, day) ==
  IF ~ValidDate(year, month, day) THEN "?"
  ELSE <<"Mon", "Tue", "Wed", "Thu", "Fri", "Sat", "Sun">>[weekday(year, month, day) + 1]

(***************************************************************************)
(* Event and its serialization                                             *)
(***************************************************************************)

Event(url, year, month, day, time_et, status, title, venue, keywords) ==
  [url |-> url, year |-> year, month |-> month, day |-> day, time_et |-> time_et,
   status |-> status, title |-> title, venue |-> venue, keywords |-> keywords]

date_str(e) == strip(MONTH_BY_NUM(e.month) \o " " \o str(e.day) \o ", " \o str(e.year))

when_str(e) ==
  LET left == strip(MONTH_BY_NUM(e.month) \o " " \o str(e.day) \o " (" \o
                    weekday_abbrev(e.year, e.month, e.day) \o ")")
  IN IF e.time_et # "" THEN left \o " " \o e.time_et \o " ET" ELSE left

event_to_dict(e) ==
  [url |-> e.url, date |-> date_str(e), time_et |-> e.time_et, status |-> e.status,
   event_title |-> e.title, venue |-> e.venue, keywords |-> e.keywords]

\* the Event of the dict d whose date string parsed to ymd
DictEvent(d, ymd) ==
  IF ymd = None THEN None
  ELSE Event(norm(d.url), ymd[1], ymd[2], ymd[3], upper(norm(d.time_et)),
             normalize_status(d.status), norm(d.event_title), norm(d.venue),
             [i \in DOMAIN d.keywords |-> norm(d.keywords[i])])

\* Optional[Event]: None when the date string does not match DATE_HDR_RE
dict_to_event(d) == DictEvent(d, MatchDate(DATE_HDR_RE(norm(d.date))))

(***************************************************************************)
(* Filter predicates                                                       *)
(***************************************************************************)

is_children_family(e) ==
  \E i \in DOMAIN e.keywords : lower(strip(e.keywords[i])) = "children's/family"

is_library_orientation(e) == contains(upper(e.title), "LIBRARY ORIENTATION TOUR")

is_art_arch_tour(e) == lower(norm(e.title)) = "art & architecture tour"

is_saturday(e) == ValidDate(e.year, e.month, e.day) /\ weekday(e.year, e.month, e.day) = 5

fmt_line(e) ==
  strip("- " \o when_str(e) \o " -- " \o
        (IF e.status # "" THEN "[" \o e.status \o "] " ELSE "") \o e.title)

\* variant of should_track: the children/family test is missing
should_track_NoFamilyTest(e) ==
  IF is_library_orientation(e) THEN FALSE
  ELSE IF is_art_arch_tour(e) /\ ~is_saturday(e) THEN FALSE
  ELSE TRUE

should_track(e) ==
  IF is_library_orientation(e) THEN FALSE
  ELSE IF is_children_family(e) THEN FALSE
  ELSE IF is_art_arch_tour(e) /\ ~is_saturday(e) THEN FALSE
  ELSE TRUE

\* variant of should_notify_as_new_event: tours are tested as in should_track
should_notify_as_new_event_SatTours(e) ==
  IF is_library_orientation(e) THEN FALSE
  ELSE IF is_children_family(e) THEN FALSE
  ELSE IF is_art_arch_tour(e) /\ ~is_saturday(e) THEN FALSE
  ELSE TRUE

should_notify_as_new_event(e) ==
  IF is_library_orientation(e) THEN FALSE
  ELSE IF is_children_family(e) THEN FALSE
  ELSE IF is_art_arch_tour(e) THEN FALSE
  ELSE TRUE

(***************************************************************************)
(* Sorting: list.sort / sorted with a tuple key (stable)                   *)
(***************************************************************************)

\* a < b on key tuples whose first three components are int and the rest str
RECURSIVE KeyLessFrom(_, _, _)
KeyLessFrom(a, b, i) ==
  IF i > Len(a) THEN FALSE
  ELSE IF a[i] = b[i] THEN KeyLessFrom(a, b, i + 1)
  ELSE IF i <= 3 THEN a[i] < b[i]
  ELSE strLess(a[i], b[i])

KeyLess(a, b) == KeyLessFrom(a, b, 1)

\* insert the pair <<key, item>> after every pair whose key is not greater
RECURSIVE Insert(_, _)
Insert(ps, p) ==
  IF ps = <<>> THEN <<p>>
  ELSE IF KeyLess(p[1], ps[Len(ps)][1])
       THEN Append(Insert(SubSeq(ps, 1, Len(ps) - 1), p), ps[Len(ps)])
       ELSE Append(ps, p)

RECURSIVE SortPairs(_)
SortPairs(ps) ==
  IF ps = <<>> THEN <<>>
  ELSE Insert(SortPairs(SubSeq(ps, 1, Len(ps) - 1)), ps[Len(ps)])

\* items in ascending order of their keys, keys[i] being the key of items[i]
sorted(items, keys) ==
  LET ps == SortPairs([i \in DOMAIN items |-> <<keys[i], items[i]>>])
  IN [i \in DOMAIN ps |-> ps[i][2]]

\* key of out.sort in fetch_events
FetchKey(e) == <<e.year, e.month, e.day, e.time_et, lower(e.title), e.url>>

\* key of new_events.sort and of the baseline list in main
NotifyKey(e) == <<e.year, e.month, e.day, e.time_et, lower(e.title)>>

\* list.sort / sorted of events with the key of new_events and the baseline
sorted_for_notify(events) == sorted(events, [i \in DOMAIN events |-> NotifyKey(events[i])])

\* key of reopened_sat_tours.sort in main; t is (cur, old_status, new_status)
ReopenedKey(t) == <<t[1].year, t[1].month, t[1].day, t[1].time_et>>

(***************************************************************************)
(* The listing page and fetch_events                                       *)
(***************************************************************************)

\* result of reading a sub-element: its text, or the read raised (element
\* absent, timeout)
Text(t) == [ok |-> TRUE, text |-> t]

Raised == [ok |-> FALSE, text |-> ""]

\* result of reading a list of sub-elements
Texts(ts) == [ok |-> TRUE, texts |-> ts]

RaisedList == [ok |-> FALSE, texts |-> <<>>]

\* one a.product-item[href] element of the materialized page; href is the
\* result of a.get_attribute("href"), the other fields those of the reads of
\* its sub-elements
Card(href, name, time, venue, prices, kws, hdr, badge_month, badge_day) ==
  [href |-> href, name |-> name, time |-> time, venue |-> venue, prices |-> prices,
   kws |-> kws, hdr |-> hdr, badge_month |-> badge_month, badge_day |-> badge_day]

Host == "events.bostonathenaeum.org"

\* urljoin("https://events.bostonathenaeum.org", href) for an href that is
\* empty, absolute with scheme, or a path (no query, no fragment)
urljoin(href) ==
  IF href = "" THEN "https://" \o Host
  ELSE IF startswith(href, "https://") \/ startswith(href, "http://") THEN href
  ELSE IF startswith(href, "/") THEN "https://" \o Host \o href
  ELSE "https://" \o Host \o "/" \o href

\* index of the first "/" of s, or Len(s) + 1
RECURSIVE SlashAt(_, _)
SlashAt(s, i) == IF i > Len(s) \/ SubSeq(s, i, i) = "/" THEN i ELSE SlashAt(s, i + 1)

\* urlparse(u) of an http(s) url: netloc and path
urlparse(u) ==
  LET rest == IF startswith(u, "https://") THEN SubSeq(u, 9, Len(u)) ELSE SubSeq(u, 8, Len(u))
      k == SlashAt(rest, 1)
  IN [netloc |-> SubSeq(rest, 1, k - 1), path |-> SubSeq(rest, k, Len(rest))]

looks_like_event_url(u) ==
  LET p == urlparse(u)
  IN IF p.netloc # "" /\ p.netloc # Host THEN FALSE
     ELSE IF ~startswith(p.path, "/en/") THEN FALSE
     ELSE IF rstripSlash(p.path) \in {"/en", "/en/"} THEN FALSE
     ELSE TRUE

\* datetime.now().year, used for a date read from the badge
NowYear == 2026

\* first non-empty normalized text among the first three price elements
RECURSIVE FirstStatus(_, _)
FirstStatus(ts, j) ==
  IF j > Len(ts) \/ j > 3 THEN ""
  ELSE IF norm(ts[j]) # "" THEN normalize_status(norm(ts[j]))
  ELSE FirstStatus(ts, j + 1)

\* keywords: the non-empty normalized span texts, in order
RECURSIVE Keywords(_)
Keywords(ts) ==
  IF ts = <<>> THEN <<>>
  ELSE IF norm(ts[1]) # "" THEN <<norm(ts[1])>> \o Keywords(Tail(ts))
  ELSE Keywords(Tail(ts))

\* the date read from the badge texts mon and day, None when int() raises
\* or the month is not in MONTHS
BadgeDate(mon, day) ==
  IF day = "" \/ ~AllDigits(day) THEN None
  ELSE IF mon \notin DOMAIN MONTHS THEN None
  ELSE <<NowYear, MONTHS[mon], int(day)>>

\* the date hdr of the header when there is one, else the badge date
HeaderOrBadge(a, hdr) ==
  IF hdr # None THEN hdr
  ELSE IF ~a.badge_month.ok \/ ~a.badge_day.ok THEN None
  ELSE BadgeDate(upper(norm(a.badge_month.text)), norm(a.badge_day.text))

\* the date of a card: partition header, else badge with the current year
CardDate(a) == HeaderOrBadge(a, IF a.hdr.ok THEN parse_date_header(a.hdr.text) ELSE None)

\* the checks on the fields read from a card and the Event built from them
FieldsEvent(abs_url, title, time_et, venue, status, keywords, ymd) ==
  IF ~looks_like_event_url(abs_url) THEN None
  ELSE IF title = "" THEN None
  ELSE IF ymd = None THEN None
  ELSE Event(abs_url, ymd[1], ymd[2], ymd[3], time_et, status, title, venue, keywords)

\* body of the loop over the cards up to the duplicate check: the event
\* built from card a, or None when the card is skipped
CardEvent(a) ==
  FieldsEvent(urljoin(a.href.text),
              IF a.name.ok THEN norm(a.name.text) ELSE "",
              IF a.time.ok THEN upper(norm(a.time.text)) ELSE "",
              IF a.venue.ok THEN norm(a.venue.text) ELSE "",
              IF a.prices.ok THEN FirstStatus(a.prices.texts, 1) ELSE "",
              IF a.kws.ok THEN Keywords(a.kws.texts) ELSE <<>>,
              CardDate(a))

\* the loop over the cards in document order with its seen set
\* variant of Keep: a later card with a seen url replaces the event kept
Keep_LastWins(e, seen, out) ==
  IF e = None THEN [seen |-> seen, out |-> out]
  ELSE IF e.url \in seen
  THEN [seen |-> seen, out |-> [i \in DOMAIN out |-> IF out[i].url = e.url THEN e ELSE out[i]]]
  ELSE [seen |-> seen \cup {e.url}, out |-> Append(out, e)]

\* the duplicate check: seen and out after the candidate e of one card
Keep(e, seen, out) ==
  IF e = None \/ e.url \in seen
  THEN [seen |-> seen, out |-> out]
  ELSE [seen |-> seen \cup {e.url}, out |-> Append(out, e)]

\* fetch_events returns the list events
Return(events) == [raised |-> "", events |-> events]

\* an exception leaves fetch_events; raised names the call that raised
Raise(call) == [raised |-> call, events |-> <<>>]

\* the loop over the cards: a.get_attribute("href") is outside every try, so
\* its exception ends the loop and the function
RECURSIVE Collect(_, _)
Collect(cards, acc) ==
  IF cards = <<>> THEN Return(acc.out)
  ELSE IF ~cards[1].href.ok THEN Raise("get_attribute")
  ELSE Collect(Tail(cards), Keep(CardEvent(cards[1]), acc.seen, acc.out))

\* variant of sort_fetched: the key ends with the lowercase title
sort_fetched_NoUrl(out) == sorted(out, [i \in DOMAIN out |-> NotifyKey(out[i])])

\* out.sort(key=...)
sort_fetched(out) == sorted(out, [i \in DOMAIN out |-> FetchKey(out[i])])

\* browser.close(), the sort and the return after a loop that did not raise
Sorted(r) == IF r.raised # "" THEN r ELSE Return(sort_fetched(r.events))

\* the calls of fetch_events outside every try before the loop over the
\* cards: fault names the one that raises in this run, "" when none does
Faults == {"goto", "evaluate"}

\* variant of fetch_events: a call that raises before the loop is swallowed
\* and the function returns the empty list
fetch_events_Swallowed(fault, cards) ==
  IF fault # "" THEN Return(<<>>)
  ELSE Sorted(Collect(cards, [seen |-> {}, out |-> <<>>]))

\* fetch_events on a page that shows cards once it is materialized
fetch_events(fault, cards) ==
  IF fault # "" THEN Raise(fault)
  ELSE Sorted(Collect(cards, [seen |-> {}, out |-> <<>>]))

(***************************************************************************)
(* fetch_events up to the loop over the cards, one step per loop iteration *)
(***************************************************************************)

\* range(80) of the load-more loop
LoadMoreLimit == 80

\* range(8) of the scroll loop
ScrollLimit == 8

\* no fetch_events in progress
NotFetching == [pc |-> "idle", i |-> 0, count |-> 0, clicks |-> 0, scrolls |-> 0, raised |-> ""]

\* fetch_events at page.goto
AtGoto == [pc |-> "goto", i |-> 0, count |-> 0, clicks |-> 0, scrolls |-> 0, raised |-> ""]

\* what one iteration of the load-more loop meets
LoadMoreOutcomes ==
  {"absent", "hidden", "click_timeout", "wait_timeout", "error", "same", "grow"}

\* the end of one for loop: on to the loop or statement named next
Leave(m, next) == [m EXCEPT !.pc = next, !.i = 0]

\* the end of an iteration that did not break
Continue(m, limit, next) ==
  IF m.i + 1 = limit THEN Leave(m, next) ELSE [m EXCEPT !.i = m.i + 1]

\* btn.click() has been called
Clicked(m) == [m EXCEPT !.clicks = m.clicks + 1]

\* page.evaluate("window.scrollTo(...)") has been called
Scrolled(m) == [m EXCEPT !.scrolls = m.scrolls + 1]

\* count_cards() returns more than before
Grown(m) == [m EXCEPT !.count = m.count + 1]

\* an exception leaves fetch_events
Escaped(m, call) == [m EXCEPT !.pc = "raised", !.raised = call]

\* one iteration of the load-more loop, every statement of it inside the try
LoadMoreIteration(m, outcome) ==
  IF outcome \in {"absent", "hidden", "click_timeout", "error"} THEN Leave(m, "scroll")
  ELSE IF outcome \in {"wait_timeout", "same"} THEN Leave(Clicked(m), "scroll")
  ELSE Continue(Grown(Clicked(m)), LoadMoreLimit, "scroll")

\* one iteration of the scroll loop: only wait_for_load_state is inside a try
ScrollIteration(m, raises, grew) ==
  IF raises THEN Escaped(m, "evaluate")
  ELSE IF ~grew THEN Leave(Scrolled(m), "cards")
  ELSE Continue(Grown(Scrolled(m)), ScrollLimit, "cards")

(***************************************************************************)
(* Bounds and the cards a listing page is drawn from                       *)
(***************************************************************************)

\* most cards on one materialized page
MaxCards == 2

\* most runs of main in one behaviour
MaxRuns == 2

\* a card whose sub-elements are all readable and that has no date badge
Plain(href, name, time, prices, kws, hdr) ==
  Card(Text(href), Text(name), Text(time), Text("Boston Athenaeum"), Texts(prices), Texts(kws),
       Text(hdr), Raised, Raised)

TourSold == Plain("/en/art-architecture-tour-1", "Art & Architecture Tour", "11:00 am",
                  <<"", "Sold Out">>, <<"Tours">>, "FEBRUARY 28, 2026")

TourOpen == Plain("/en/art-architecture-tour-1", "Art & Architecture Tour", "11:00 am",
                  <<>>, <<"Tours">>, "FEBRUARY 28, 2026")

Lecture == Plain("/en/evening-lecture", "Evening  Lecture", "6:00 pm",
                 <<"Free">>, <<"Lectures", " ">>, "March 3, 2026")

Orientation == Plain("/en/orientation", "New Member Library Orientation tour", "10:00 am",
                     <<>>, <<>>, "MARCH 4, 2026")

Kids == Plain("/en/story-time", "Story Time", "10:30 am",
              <<"Wait Listed">>, <<"CHILDREN'S/FAMILY">>, "MARCH 7, 2026")

TourWed == Plain("/en/art-architecture-tour-2", "ART & Architecture Tour", "3:00 pm",
                 <<>>, <<"Tours">>, "FEBRUARY 25, 2026")

Feb31 == Plain("/en/ghost-event", "Ghost Event", "",
               <<>>, <<>>, "FEBRUARY 31, 2026")

Year999 == Plain("/en/founders-day", "Founders Day", "",
                 <<>>, <<>>, "JANUARY 1, 0999")

Badge == Card(Text("en/members-night"), Text("Members Night"), Raised, Raised, RaisedList, RaisedList,
              Text("Upcoming"), Text("March"), Text(" 7 "))

TalkB == Plain("/en/talk-b", "Book Talk", "6:00 pm", <<>>, <<>>, "MARCH 3, 2026")

TalkA == Plain("https://events.bostonathenaeum.org/en/talk-a", "BOOK TALK", "6:00 PM",
               <<>>, <<>>, "MARCH 3, 2026")

Untitled == Card(Text("/en/talk-a"), Raised, Text("5:00 pm"), Text(""), Texts(<<"Sold Out">>),
                 Texts(<<>>), Text("MARCH 2, 2026"), Raised, Raised)

TourWait == Plain("/en/art-architecture-tour-1", "Art & Architecture Tour", "11:00 am",
                  <<"Wait Listed">>, <<"Tours">>, "FEBRUARY 28, 2026")

TourWedSold == Plain("/en/art-architecture-tour-2", "ART & Architecture Tour", "3:00 pm",
                     <<"SOLD OUT">>, <<"Tours">>, "FEBRUARY 25, 2026")

\* a card that leaves the document before its href is read
Detached == Card(Raised, Text("Evening Lecture"), Text("6:00 pm"), Text("Boston Athenaeum"),
                 Texts(<<>>), Texts(<<>>), Text("March 3, 2026"), Raised, Raised)

StoryTime == Plain("/en/story-time", "Story Time", "10:30 am",
                   <<"Wait Listed">>, <<"Readings">>, "MARCH 7, 2026")

StoryTimeMoved == Plain("/en/story-time", "Story Hour", "2:00 pm",
                        <<>>, <<"Readings">>, "MARCH 14, 2026")

\* the sets of cards one site can show; a behaviour stays on one of them
Sites ==
  { {TourSold, TourOpen, Lecture},
    {Orientation, Kids, TourWed},
    {Feb31, Year999, Badge},
    {TalkB, TalkA, Untitled},
    {TourWait, TourOpen, TourSold},
    {TourWedSold, TourWed, Detached},
    {Kids, StoryTime, StoryTimeMoved},
    {Lecture, Orientation} }

\* the pages over a set of cards: up to MaxCards of them, each shown once,
\* in any document order
Pages(cards) ==
  {p \in UNION {[1..n -> cards] : n \in 0..MaxCards} :
     \A i, j \in DOMAIN p : p[i] = p[j] => i = j}

(***************************************************************************)
(* State                                                                   *)
(***************************************************************************)

VARIABLES
  site,         \* the cards the listing page can show
  clock,        \* datetime.now(), one tick per run
  state_file,   \* STATE_FILE
  pretty_file,  \* PRETTY_FILE
  md_file,      \* MD_FILE
  run,          \* the locals and effects of the latest run of main
  first_runs,   \* history: the runs so far that reached first_run = True
  mat           \* fetch_events before the loop over the cards, step by step

vars == <<site, clock, state_file, pretty_file, md_file, run, first_runs, mat>>

(***************************************************************************)
(* State store                                                             *)
(***************************************************************************)

APP_NAME == "ath-events"

URL == "https://events.bostonathenaeum.org/en/"

\* the hash of a run without previous state: the empty string
NoHash == <<>>

\* hex digest of the JSON serialization of the payload items: equal for
\* equal item lists, different for different ones, never the empty string
sha256(payload_items) == <<"sha256", payload_items>>

\* STATE_FILE does not exist
Absent ==
  [exists |-> FALSE, readable |-> FALSE, app |-> "", checked_at |-> 0, url |-> "",
   hash |-> NoHash, items |-> <<>>]

\* STATE_FILE exists and read_text or json.loads raises on it
Unreadable ==
  [exists |-> TRUE, readable |-> FALSE, app |-> "", checked_at |-> 0, url |-> "",
   hash |-> NoHash, items |-> <<>>]

\* out[e.key()] = e on an insertion-ordered dict, kept as the list of its values
Put(out, e) ==
  IF \E i \in DOMAIN out : out[i].url = e.url
  THEN [i \in DOMAIN out |-> IF out[i].url = e.url THEN e ELSE out[i]]
  ELSE Append(out, e)

\* if e and e.url: out[e.key()] = e
PutLoaded(out, e) == IF e # None /\ e.url # "" THEN Put(out, e) ELSE out

\* the loop of load_state over old["items"]
RECURSIVE LoadItems(_, _)
LoadItems(items, out) ==
  IF items = <<>> THEN out
  ELSE LoadItems(Tail(items), PutLoaded(out, dict_to_event(items[1])))

\* variant of load_state: one record that does not parse empties the result
load_state_AllOrNothing(file) ==
  IF ~file.exists THEN <<NoHash, <<>>>>
  ELSE IF ~file.readable THEN <<NoHash, <<>>>>
  ELSE IF \E i \in DOMAIN file.items : dict_to_event(file.items[i]) = None
  THEN <<NoHash, <<>>>>
  ELSE <<file.hash, LoadItems(file.items, <<>>)>>

\* (old_hash, old_events)
load_state(file) ==
  IF ~file.exists THEN <<NoHash, <<>>>>
  ELSE IF ~file.readable THEN <<NoHash, <<>>>>
  ELSE <<file.hash, LoadItems(file.items, <<>>)>>

\* variant of save_state: only the tracked events are written
save_state_TrackedOnly(now, events, h) ==
  [exists |-> TRUE, readable |-> TRUE, app |-> APP_NAME, checked_at |-> now, url |-> URL,
   hash |-> h,
   items |-> [i \in DOMAIN SelectSeq(events, should_track) |->
                event_to_dict(SelectSeq(events, should_track)[i])]]

\* the payload save_state writes to STATE_FILE
save_state(now, events, h) ==
  [exists |-> TRUE, readable |-> TRUE, app |-> APP_NAME, checked_at |-> now, url |-> URL,
   hash |-> h, items |-> [i \in DOMAIN events |-> event_to_dict(events[i])]]

RECURSIVE join(_, _)
join(sep, ss) ==
  IF ss = <<>> THEN ""
  ELSE IF Len(ss) = 1 THEN ss[1]
  ELSE ss[1] \o sep \o join(sep, Tail(ss))

\* one line of MD_FILE
md_line(e) ==
  strip("- " \o when_str(e) \o " -- " \o
        (IF e.status # "" THEN "[" \o e.status \o "] " ELSE "") \o e.title \o
        (IF e.keywords # <<>> THEN " (" \o join(", ", e.keywords) \o ")" ELSE ""))

\* what write_outputs writes to PRETTY_FILE
pretty_output(events) ==
  [exists |-> TRUE, items |-> [i \in DOMAIN events |-> event_to_dict(events[i])]]

\* what write_outputs writes to MD_FILE, line by line
md_output(events) ==
  [exists |-> TRUE,
   lines |-> <<"# Boston Athenaeum events", "">> \o [i \in DOMAIN events |-> md_line(events[i])]]

NoOutput == [exists |-> FALSE, items |-> <<>>]

NoMd == [exists |-> FALSE, lines |-> <<>>]

(***************************************************************************)
(* main                                                                    *)
(***************************************************************************)

\* {e.key(): e for e in events}
RECURSIVE ByKey(_, _)
ByKey(events, out) ==
  IF events = <<>> THEN out ELSE ByKey(Tail(events), Put(out, events[1]))

RECURSIVE Tracked(_)
Tracked(by_key) ==
  IF by_key = <<>> THEN <<>>
  ELSE IF should_track(by_key[1]) THEN <<by_key[1]>> \o Tracked(Tail(by_key))
  ELSE Tracked(Tail(by_key))

HasKey(by_key, k) == \E i \in DOMAIN by_key : by_key[i].url = k

Get(by_key, k) == by_key[CHOOSE i \in DOMAIN by_key : by_key[i].url = k]

\* the comprehension that builds new_events, before the sort
RECURSIVE NewOf(_, _)
NewOf(current_tracked, old_tracked) ==
  IF current_tracked = <<>> THEN <<>>
  ELSE LET e == current_tracked[1]
           rest == NewOf(Tail(current_tracked), old_tracked)
       IN IF ~HasKey(old_tracked, e.url) /\ should_notify_as_new_event(e)
          THEN <<e>> \o rest ELSE rest

\* variant of Reopens: every status that closes the tour counts as the old one
Reopens_FromClosed(old_status, new_status) ==
  old_status \in {"SOLD OUT", "WAITLISTED"} /\ new_status \notin {"SOLD OUT", "WAITLISTED"}

\* variant of Reopens: the new status is compared with the label the
\* notification prints for an empty status
Reopens_Available(old_status, new_status) ==
  old_status = "SOLD OUT" /\ new_status = "AVAILABLE"

\* the status test of the reopened rule: SOLD OUT -> not SOLD OUT
Reopens(old_status, new_status) == old_status = "SOLD OUT" /\ new_status # "SOLD OUT"

\* the loop that builds reopened_sat_tours, before the sort
RECURSIVE ReopenedOf(_, _)
ReopenedOf(current_by_key, old_by_key) ==
  IF current_by_key = <<>> THEN <<>>
  ELSE LET cur == current_by_key[1]
           rest == ReopenedOf(Tail(current_by_key), old_by_key)
           old_status == upper(Get(old_by_key, cur.url).status)
           new_status == upper(cur.status)
       IN IF ~is_art_arch_tour(cur) \/ ~is_saturday(cur) THEN rest
          ELSE IF ~HasKey(old_by_key, cur.url) THEN rest
          ELSE IF Reopens(old_status, new_status)
               THEN <<<<cur, old_status, new_status>>>> \o rest
          ELSE rest

\* variant of BaselineList: the baseline is filtered like the new events
BaselineList_NewOnly(current_tracked) ==
  sorted_for_notify(SelectSeq(current_tracked, should_notify_as_new_event))

\* the list of the baseline notification
BaselineList(current_tracked) == sorted_for_notify(current_tracked)

\* the baseline notification
BaselineNote(baseline_list) ==
  [title |-> "Athenaeum events: baseline",
   body |-> <<"Baseline (current matching events): " \o str(Len(baseline_list))>> \o
            [i \in DOMAIN baseline_list |-> fmt_line(baseline_list[i])]]

reopened_line(t) ==
  "- " \o when_str(t[1]) \o " -- Art & Architecture Tour [" \o t[2] \o " -> " \o
  (IF t[3] # "" THEN t[3] ELSE "AVAILABLE") \o "]"

\* the update notification
UpdateNote(new_events, reopened_sat_tours) ==
  LET new_lines ==
        IF new_events # <<>>
        THEN <<"New events: " \o str(Len(new_events))>> \o
             [i \in DOMAIN new_events |-> fmt_line(new_events[i])]
        ELSE <<>>
      reopened_lines ==
        IF reopened_sat_tours # <<>>
        THEN (IF new_lines # <<>> THEN <<"">> ELSE <<>>) \o
             <<"Saturday Art & Architecture Tour no longer sold out: " \o
               str(Len(reopened_sat_tours))>> \o
             [i \in DOMAIN reopened_sat_tours |-> reopened_line(reopened_sat_tours[i])]
        ELSE <<>>
      title_bits ==
        (IF new_events # <<>> THEN <<str(Len(new_events)) \o " new">> ELSE <<>>) \o
        (IF reopened_sat_tours # <<>>
         THEN <<str(Len(reopened_sat_tours)) \o " tour reopen">> ELSE <<>>)
  IN [title |-> "Athenaeum events: " \o join(", ", title_bits),
      body |-> new_lines \o reopened_lines]

\* variant of Notifications: the update branch does not test first_run
Notifications_NoFirstRunTest(first_run, notify_first_run, baseline_list, new_events, reopened_sat_tours) ==
  (IF first_run /\ notify_first_run THEN <<BaselineNote(baseline_list)>> ELSE <<>>) \o
  (IF new_events # <<>> \/ reopened_sat_tours # <<>>
   THEN <<UpdateNote(new_events, reopened_sat_tours)>> ELSE <<>>)

\* the notifications one run posts, in order
Notifications(first_run, notify_first_run, baseline_list, new_events, reopened_sat_tours) ==
  (IF first_run /\ notify_first_run THEN <<BaselineNote(baseline_list)>> ELSE <<>>) \o
  (IF ~first_run /\ (new_events # <<>> \/ reopened_sat_tours # <<>>)
   THEN <<UpdateNote(new_events, reopened_sat_tours)>> ELSE <<>>)

\* variant of NoChanges: the hash is compared only on a first run
NoChanges_FirstRun(first_run, old_hash, h) == first_run /\ old_hash # NoHash /\ h = old_hash

\* the test that ends main without rewriting state and outputs
NoChanges(first_run, old_hash, h) == ~first_run /\ old_hash # NoHash /\ h = old_hash

\* reopened_sat_tours.sort(key=...)
sort_reopened(reopened) ==
  sorted(reopened, [i \in DOMAIN reopened |-> ReopenedKey(reopened[i])])

\* variant of Loaded: a run that loaded no records counts as a first run
Loaded_FirstRunNoRecords(file, now, cards, notify_first_run, old, events) ==
  [now |-> now, notify_first_run |-> notify_first_run, cards |-> cards, file |-> file,
   failed |-> "", old_hash |-> old[1], old_by_key |-> old[2], events |-> events,
   h |-> sha256([i \in DOMAIN events |-> event_to_dict(events[i])]),
   first_run |-> (old[2] = <<>>)]

\* main up to the hash of the payload: the state file found, what load_state
\* and fetch_events return
Loaded(file, now, cards, notify_first_run, old, events) ==
  [now |-> now, notify_first_run |-> notify_first_run, cards |-> cards, file |-> file,
   failed |-> "", old_hash |-> old[1], old_by_key |-> old[2], events |-> events,
   h |-> sha256([i \in DOMAIN events |-> event_to_dict(events[i])]),
   first_run |-> (old[1] = NoHash)]

\* the tracked events of both sides, the new events and the reopened tours
Diffed(r, current_by_key, current_tracked, old_tracked) ==
  r @@ [current_tracked |-> current_tracked, old_tracked |-> old_tracked,
        new_events |-> sorted_for_notify(NewOf(current_tracked, old_tracked)),
        reopened_sat_tours |-> sort_reopened(ReopenedOf(current_by_key, r.old_by_key)),
        baseline_list |-> IF r.first_run /\ r.notify_first_run
                          THEN BaselineList(current_tracked) ELSE <<>>]

\* the notifications posted, whether state and outputs are rewritten, and
\* the Status line printed
Finished(r, unchanged) ==
  r @@ [sent |-> Notifications(r.first_run, r.notify_first_run, r.baseline_list,
                               r.new_events, r.reopened_sat_tours),
        saved |-> ~unchanged,
        status |-> IF unchanged THEN "no changes (not rewriting state.json)"
                   ELSE IF r.first_run
                        THEN "first run (baseline created" \o
                             (IF r.notify_first_run THEN ", notified)"
                              ELSE ", no notification)")
                   ELSE IF r.new_events # <<>> \/ r.reopened_sat_tours # <<>>
                        THEN "notified and state updated"
                   ELSE "no relevant changes (state updated because payload changed)"]

\* variant of DiffOf: the previous keys are those of all loaded records
DiffOf_AllOldKeys(r) ==
  Diffed(r, ByKey(r.events, <<>>), Tracked(ByKey(r.events, <<>>)), r.old_by_key)

\* Diffed for the run r so far
DiffOf(r) ==
  Diffed(r, ByKey(r.events, <<>>), Tracked(ByKey(r.events, <<>>)), Tracked(r.old_by_key))

\* Finished for the run r so far
FinishOf(r) == Finished(r, NoChanges(r.first_run, r.old_hash, r.h))

\* the run in which fetch_events returned events
Completed(file, now, cards, notify_first_run, old, events) ==
  FinishOf(DiffOf(Loaded(file, now, cards, notify_first_run, old, events)))

\* the run that ends with the exception call raised in fetch_events: main
\* has loaded the state and does nothing after the traceback
Failed(file, now, cards, notify_first_run, old, call) ==
  [now |-> now, notify_first_run |-> notify_first_run, cards |-> cards, file |-> file,
   failed |-> call, old_hash |-> old[1], old_by_key |-> old[2], events |-> <<>>,
   h |-> NoHash, first_run |-> FALSE, current_tracked |-> <<>>, old_tracked |-> <<>>,
   new_events |-> <<>>, reopened_sat_tours |-> <<>>, baseline_list |-> <<>>,
   sent |-> <<>>, saved |-> FALSE, status |-> ""]

\* main after load_state and fetch_events
Fetched(file, now, cards, notify_first_run, old, fetched) ==
  IF fetched.raised # ""
  THEN Failed(file, now, cards, notify_first_run, old, fetched.raised)
  ELSE Completed(file, now, cards, notify_first_run, old, fetched.events)

\* the locals of one run of main, with the state file it found, the fault
\* it met, the notifications it posts and the Status line it prints
RunOf(file, now, cards, notify_first_run, fault) ==
  [fault |-> fault] @@
  Fetched(file, now, cards, notify_first_run, load_state(file), fetch_events(fault, cards))

\* before the first run
NoRun ==
  [now |-> 0, notify_first_run |-> FALSE, cards |-> <<>>, file |-> Absent,
   fault |-> "", failed |-> "", old_hash |-> NoHash,
   old_by_key |-> <<>>, events |-> <<>>, h |-> NoHash, first_run |-> FALSE,
   current_tracked |-> <<>>, old_tracked |-> <<>>, new_events |-> <<>>,
   reopened_sat_tours |-> <<>>, baseline_list |-> <<>>, sent |-> <<>>, saved |-> FALSE,
   status |-> ""]

Init ==
  /\ site \in Sites
  /\ clock = 0
  /\ state_file \in {Absent, Unreadable}
  /\ pretty_file = NoOutput
  /\ md_file = NoMd
  /\ run = NoRun
  /\ first_runs = 0
  /\ mat = NotFetching

\* one run of the program on a page that shows the given cards once it is
\* materialized; fault names the call of fetch_events that raises before the
\* cards are read, "" when none does
main(cards, notify_first_run, fault) ==
  /\ clock < MaxRuns
  /\ clock' = clock + 1
  /\ run' = RunOf(state_file, clock + 1, cards, notify_first_run, fault)
  /\ first_runs' = IF run'.first_run THEN first_runs + 1 ELSE first_runs
  /\ UNCHANGED mat
  /\ IF run'.saved
     THEN /\ state_file' = save_state(run'.now, run'.events, run'.h)
          /\ pretty_file' = pretty_output(run'.events)
          /\ md_file' = md_output(run'.events)
     ELSE UNCHANGED <<state_file, pretty_file, md_file>>
  /\ UNCHANGED site

Next ==
  \/ \E cards \in Pages(site), notify_first_run \in BOOLEAN : main(cards, notify_first_run, "")
  \/ \E fault \in Faults, notify_first_run \in BOOLEAN : main(<<>>, notify_first_run, fault)

Spec == Init /\ [][Next]_vars


(***************************************************************************)
(* fetch_events up to the loop over the cards, as a process of its own     *)
(***************************************************************************)

MatInit ==
  /\ site = {}
  /\ clock = 0
  /\ state_file = Absent
  /\ pretty_file = NoOutput
  /\ md_file = NoMd
  /\ run = NoRun
  /\ first_runs = 0
  /\ mat = AtGoto

\* page.goto(URL, ...): it raises, or the page shows count cards
goto(ok, count) ==
  /\ mat.pc = "goto"
  /\ mat' = IF ok THEN [mat EXCEPT !.pc = "load_more", !.count = count]
            ELSE Escaped(mat, "goto")
  /\ UNCHANGED <<site, clock, state_file, pretty_file, md_file, run, first_runs>>

load_more(outcome) ==
  /\ mat.pc = "load_more"
  /\ mat' = LoadMoreIteration(mat, outcome)
  /\ UNCHANGED <<site, clock, state_file, pretty_file, md_file, run, first_runs>>

\* timed_out: wait_for_load_state raises and the except clause passes
scroll(raises, timed_out, grew) ==
  /\ mat.pc = "scroll"
  /\ mat' = ScrollIteration(mat, raises, grew)
  /\ UNCHANGED <<site, clock, state_file, pretty_file, md_file, run, first_runs>>

MatNext ==
  \/ \E ok \in BOOLEAN, count \in 0..MaxCards : goto(ok, count)
  \/ \E outcome \in LoadMoreOutcomes : load_more(outcome)
  \/ \E raises, timed_out, grew \in BOOLEAN : scroll(raises, timed_out, grew)

MatSpec == MatInit /\ [][MatNext]_vars

(***************************************************************************)
(* Properties                                                              *)
(***************************************************************************)

\* the latest run of main has completed
Ran == run.now > 0 /\ run.failed = ""

Range(s) == {s[i] : i \in DOMAIN s}

BaselineTitle == "Athenaeum events: baseline"

UpdatePrefix == "Athenaeum events: "

\* C1: a first run with the notify-on-first-run flag sends exactly one
\* baseline notification; a later run with new events or reopened tours
\* sends exactly one update notification; every other run sends none; no
\* run sends more than one notification.
C1_NotificationRule ==
  Ran =>
    /\ Len(run.sent) <= 1
    /\ IF run.first_run /\ run.notify_first_run
       THEN Len(run.sent) = 1 /\ run.sent[1].title = BaselineTitle
       ELSE IF ~run.first_run /\ (run.new_events # <<>> \/ run.reopened_sat_tours # <<>>)
       THEN /\ Len(run.sent) = 1
            /\ run.sent[1].title # BaselineTitle
            /\ startswith(run.sent[1].title, UpdatePrefix)
            /\ Len(run.sent[1].title) > Len(UpdatePrefix)
       ELSE run.sent = <<>>

\* a later run with both a new event and a reopened tour sent one update
C1_Witness ==
  /\ Ran /\ ~run.first_run
  /\ run.new_events # <<>> /\ run.reopened_sat_tours # <<>>
  /\ Len(run.sent) = 1

\* C2: with no state file the run is a first run; without the baseline flag
\* it sends nothing; with the flag it sends exactly one baseline notification
\* whose lines are all tracked current events, Saturday tours included, in
\* canonical order (year, month, day, time label, lowercase title, url).
C2_FirstRunBaseline ==
  Ran /\ ~run.file.exists =>
    /\ run.old_hash = NoHash
    /\ run.first_run
    /\ ~run.notify_first_run => run.sent = <<>>
    /\ run.notify_first_run =>
         LET L == run.baseline_list
         IN /\ Len(run.sent) = 1
            /\ run.sent[1].title = BaselineTitle
            /\ Range(L) = {e \in Range(run.events) : should_track(e)}
            /\ Len(L) = Cardinality(Range(L))
            /\ \A i, j \in DOMAIN L : i < j => KeyLess(FetchKey(L[i]), FetchKey(L[j]))
            /\ Len(run.sent[1].body) = Len(L) + 1
            /\ \A i \in DOMAIN L : run.sent[1].body[i + 1] = fmt_line(L[i])

\* a first run from no state file sent a baseline of two events, one of them
\* a Saturday tour
C2_Witness ==
  /\ Ran /\ ~run.file.exists /\ run.notify_first_run
  /\ Len(run.sent) = 1
  /\ Len(run.baseline_list) = 2
  /\ \E e \in Range(run.baseline_list) : is_art_arch_tour(e) /\ is_saturday(e)

\* the previous and the current event set differ only in the event c, a
\* Saturday tour whose status went from SOLD OUT to empty
OnlyTourReopened(c) ==
  LET p == [c EXCEPT !.status = "SOLD OUT"]
  IN /\ c \in Range(run.events)
     /\ is_art_arch_tour(c) /\ is_saturday(c)
     /\ c.status = ""
     /\ p \in Range(run.old_by_key)
     /\ Range(run.events) \ {c} = Range(run.old_by_key) \ {p}

\* C3: when the previous and the current event set differ only in one
\* Saturday tour going from SOLD OUT to an empty status, the run records
\* exactly one reopened transition, for that url with old status SOLD OUT,
\* and no new event for that url.
C3_SingleReopened ==
  Ran =>
    \A c \in Range(run.events) :
      OnlyTourReopened(c) =>
        /\ Len(run.reopened_sat_tours) = 1
        /\ run.reopened_sat_tours[1][1] = c
        /\ run.reopened_sat_tours[1][2] = "SOLD OUT"
        /\ run.reopened_sat_tours[1][3] = ""
        /\ \A e \in Range(run.new_events) : e.url # c.url

\* such a pair of event sets, with a second event present in both
C3_Witness ==
  /\ Ran
  /\ Len(run.events) = 2
  /\ \E c \in Range(run.events) : OnlyTourReopened(c)
  /\ Len(run.reopened_sat_tours) = 1

\* C4: in a run that is not a first run and whose recomputed hash equals the
\* loaded hash, the state file is not written (it stays exactly as loaded),
\* the auxiliary outputs are not regenerated, and the run reports "no changes".
C4_NoChangeNoWrite ==
  [][(run'.now # run.now /\ run'.failed = "" /\ ~run'.first_run /\ run'.h = run'.old_hash) =>
       /\ state_file' = state_file
       /\ state_file' = run'.file
       /\ pretty_file' = pretty_file
       /\ md_file' = md_file
       /\ ~run'.saved
       /\ startswith(run'.status, "no changes")]_vars

\* the second run found the events the first run saved: the state file still
\* carries the time of the first run
C4_Witness ==
  /\ Ran /\ ~run.first_run
  /\ run.now = 2
  /\ run.h = run.old_hash
  /\ run.events # <<>>
  /\ state_file.checked_at = 1
  /\ pretty_file.exists /\ md_file.exists

\* the three exclusions, read off the fields of the event
Excluded(e) ==
  \/ contains(lower(e.title), "library orientation tour")
  \/ \E i \in DOMAIN e.keywords : lower(e.keywords[i]) = lower("Children's/Family")
  \/ /\ lower(e.title) = "art & architecture tour"
     /\ ~(ValidDate(e.year, e.month, e.day) /\ weekday_abbrev(e.year, e.month, e.day) = "Sat")

\* C5: an event is tracked exactly when none of the three exclusions applies
\* (title contains "library orientation tour" in any case, a keyword equals
\* "Children's/Family" in any case, recurring tour title not on a Saturday);
\* an excluded event is absent from the tracked set and from the new events
\* but present in the persisted items and in both auxiliary outputs.
C5_TrackedExclusions ==
  Ran =>
    /\ \A e \in Range(run.events) \cup Range(run.old_by_key) : should_track(e) <=> ~Excluded(e)
    /\ Range(run.current_tracked) = {e \in Range(run.events) : ~Excluded(e)}
    /\ Range(run.old_tracked) = {e \in Range(run.old_by_key) : ~Excluded(e)}
    /\ \A e \in Range(run.events) :
         Excluded(e) =>
           /\ e \notin Range(run.current_tracked)
           /\ e \notin Range(run.new_events)
           /\ event_to_dict(e) \in Range(state_file.items)
           /\ event_to_dict(e) \in Range(pretty_file.items)
           /\ md_line(e) \in Range(md_file.lines)

\* a later run whose page shows an orientation tour and a children/family
\* event, both unknown to the previous state: nothing is tracked or new, both
\* are persisted
C5_Witness ==
  /\ Ran /\ ~run.first_run
  /\ Len(run.events) = 2
  /\ \E e \in Range(run.events) : contains(lower(e.title), "library orientation tour")
  /\ \E e \in Range(run.events) : "CHILDREN'S/FAMILY" \in Range(e.keywords)
  /\ \A e \in Range(run.events) : ~HasKey(run.old_by_key, e.url)
  /\ run.current_tracked = <<>> /\ run.new_events = <<>>
  /\ Len(state_file.items) = 2 /\ Len(md_file.lines) = 4

\* the event has the recurring tour title
TourTitle(e) == lower(e.title) = "art & architecture tour"

\* C6: every event that satisfies the notify-as-new predicate satisfies the
\* tracked predicate; the notify-as-new predicate is false for every event
\* with the recurring tour title; no such event is in the new-events list.
C6_NoTourAsNew ==
  Ran =>
    /\ \A e \in Range(run.events) \cup Range(run.old_by_key) :
         /\ should_notify_as_new_event(e) => should_track(e)
         /\ TourTitle(e) => ~should_notify_as_new_event(e)
    /\ \A e \in Range(run.new_events) : ~TourTitle(e) /\ should_track(e)

\* a later run with a tracked Saturday tour whose url the previous state does
\* not have
C6_Witness ==
  /\ Ran /\ ~run.first_run
  /\ \E e \in Range(run.current_tracked) :
       /\ TourTitle(e) /\ is_saturday(e)
       /\ ~HasKey(run.old_by_key, e.url)
       /\ e \notin Range(run.new_events)

\* C7: for every valid calendar date, parsing the string the date serializer
\* produces returns the same (year, month, day), so an event written to the
\* state file and reloaded has the same date.
C7_DateRoundTrip ==
  Ran =>
    \A e \in Range(run.events) :
      ValidDate(e.year, e.month, e.day) =>
        /\ parse_date_header(date_str(e)) = <<e.year, e.month, e.day>>
        /\ dict_to_event(event_to_dict(e)) # None
        /\ dict_to_event(event_to_dict(e)).year = e.year
        /\ dict_to_event(event_to_dict(e)).month = e.month
        /\ dict_to_event(event_to_dict(e)).day = e.day

\* C8: every event in the extractor's output has a valid calendar date, and
\* so has every persisted record and every event of a notification.
C8_ValidDates ==
  Ran =>
    /\ \A e \in Range(run.events) : ValidDate(e.year, e.month, e.day)
    /\ \A e \in Range(LoadItems(state_file.items, <<>>)) : ValidDate(e.year, e.month, e.day)
    /\ \A e \in Range(run.baseline_list) \cup Range(run.new_events) :
         ValidDate(e.year, e.month, e.day)

\* the cards of the page that are accepted with the url u, in document order
AcceptedAt(u) ==
  {i \in DOMAIN run.cards : CardEvent(run.cards[i]) # None /\ CardEvent(run.cards[i]).url = u}

\* the urls of the accepted cards of the page
AcceptedUrls ==
  {CardEvent(run.cards[i]).url : i \in {j \in DOMAIN run.cards : CardEvent(run.cards[j]) # None}}

\* C9: the extractor's output has no two events with the same url, and for
\* every url of an accepted card the event retained is the one built from the
\* first accepted card with that url in document order.
C9_FirstSeenWins ==
  Ran =>
    /\ \A i, j \in DOMAIN run.events : run.events[i].url = run.events[j].url => i = j
    /\ {e.url : e \in Range(run.events)} = AcceptedUrls
    /\ \A e \in Range(run.events) :
         \E i \in AcceptedAt(e.url) :
           /\ \A j \in AcceptedAt(e.url) : i <= j
           /\ e = CardEvent(run.cards[i])

\* two accepted cards with one url and different statuses: one event is kept
C9_Witness ==
  /\ Ran
  /\ Len(run.cards) = 2
  /\ CardEvent(run.cards[1]) # None /\ CardEvent(run.cards[2]) # None
  /\ CardEvent(run.cards[1]).url = CardEvent(run.cards[2]).url
  /\ CardEvent(run.cards[1]).status # CardEvent(run.cards[2]).status
  /\ Len(run.events) = 1

\* the state file the run found has a record whose date string does not parse
HasUnparsable(file) == \E i \in DOMAIN file.items : dict_to_event(file.items[i]) = None

\* the state file the run found cannot be read or is not JSON
Corrupt(file) == file.exists /\ ~file.readable

\* the claim as stated: a state file that is unreadable, is invalid JSON or
\* has a record whose date string cannot be parsed loads as the empty hash
\* and the empty map, and the run is a first run.
C10_CorruptIsAbsent ==
  Ran /\ (Corrupt(run.file) \/ HasUnparsable(run.file)) =>
    /\ run.old_hash = NoHash
    /\ run.old_by_key = <<>>
    /\ run.first_run

\* C10: an unreadable or invalid-JSON state file loads as the empty hash and
\* the empty map and the run is a first run that completes; a record whose
\* date string cannot be parsed is only skipped: load returns the stored
\* hash and the map of the remaining records, and the run is a first run
\* only if the stored hash is empty.
C10_CorruptOrSkipped ==
  Ran =>
    /\ Corrupt(run.file) =>
         run.old_hash = NoHash /\ run.old_by_key = <<>> /\ run.first_run /\ run.status # ""
    /\ run.file.exists /\ run.file.readable =>
         /\ run.old_hash = run.file.hash
         /\ run.first_run <=> (run.file.hash = NoHash)
         /\ Len(run.old_by_key) =
              Cardinality({i \in DOMAIN run.file.items : dict_to_event(run.file.items[i]) # None})
         /\ \A i \in DOMAIN run.file.items :
              dict_to_event(run.file.items[i]) # None =>
                dict_to_event(run.file.items[i]) \in Range(run.old_by_key)
         /\ run.status # ""

\* the state file found has one record that does not parse and one that
\* does: the run is not a first run and knows the second record
C10_Witness ==
  /\ Ran
  /\ HasUnparsable(run.file)
  /\ Len(run.file.items) = 2
  /\ Len(run.old_by_key) = 1
  /\ run.old_hash # NoHash
  /\ ~run.first_run

\* C11: if the initial navigation fails the run aborts with a visible
\* failure: no notification is sent, the state file and the auxiliary outputs
\* are left unchanged, and the run is not one that observed zero events (no
\* event list, hash or status line is produced).
C11_GotoFailureAborts ==
  [][(run'.now # run.now /\ run'.fault = "goto") =>
       /\ run'.failed = "goto"
       /\ run'.sent = <<>>
       /\ state_file' = state_file
       /\ pretty_file' = pretty_file
       /\ md_file' = md_file
       /\ ~run'.saved
       /\ run'.h = NoHash
       /\ run'.status = ""]_vars

\* the navigation failed in a run that found a state file with events: the
\* file still holds them
C11_Witness ==
  /\ run.now > 0 /\ run.failed = "goto"
  /\ run.old_by_key # <<>>
  /\ state_file.items # <<>>
  /\ state_file.checked_at < run.now
  /\ pretty_file.items # <<>>

\* C12: a failure in a per-card sub-step, the read of the link target
\* included, never aborts the extraction: when navigation and
\* materialization raise nothing, the run completes with the events of all
\* cards whose own reads succeed.
C12_CardFailuresContained ==
  run.now > 0 /\ run.fault = "" =>
    /\ run.failed = ""
    /\ run.status # ""
    /\ \A i \in DOMAIN run.cards :
         run.cards[i].href.ok /\ CardEvent(run.cards[i]) # None =>
           \E e \in Range(run.events) : e.url = CardEvent(run.cards[i]).url

\* the previous record with the url of the event c, if there is one
Previous(c) == {p \in Range(run.old_by_key) : p.url = c.url}

\* C13: a reopened transition is recorded for a current event exactly when it
\* has the recurring tour title, falls on a Saturday, a previous record with
\* its url exists, that status is exactly "SOLD OUT" and the current status
\* is anything else; so WAITLISTED to available records none, and a
\* non-Saturday occurrence never records one.
C13_ReopenedRule ==
  Ran =>
    /\ \A i, j \in DOMAIN run.reopened_sat_tours :
         run.reopened_sat_tours[i][1].url = run.reopened_sat_tours[j][1].url => i = j
    /\ \A t \in Range(run.reopened_sat_tours) :
         /\ t[1] \in Range(run.events)
         /\ t[2] = "SOLD OUT"
         /\ t[3] = t[1].status
    /\ \A c \in Range(run.events) :
         (\E t \in Range(run.reopened_sat_tours) : t[1] = c) <=>
           /\ TourTitle(c)
           /\ weekday_abbrev(c.year, c.month, c.day) = "Sat"
           /\ \E p \in Previous(c) : p.status = "SOLD OUT"
           /\ c.status # "SOLD OUT"
    /\ \A c \in Range(run.events) :
         (\E p \in Previous(c) : p.status = "WAITLISTED") =>
           \A t \in Range(run.reopened_sat_tours) : t[1] # c

\* a Saturday tour went from WAITLISTED to available: nothing is recorded
C13_Witness ==
  /\ Ran /\ ~run.first_run
  /\ \E c \in Range(run.events) :
       /\ TourTitle(c) /\ is_saturday(c) /\ c.status = ""
       /\ \E p \in Previous(c) : p.status = "WAITLISTED"
  /\ run.reopened_sat_tours = <<>>

\* C14: the new-events list is exactly the current events that are tracked,
\* satisfy notify-as-new and whose url is not a key of the previous tracked
\* set; an event with a tracked previous record is never new, an event whose
\* previous record was untracked and that is tracked now is new.
C14_NewEvents ==
  Ran =>
    /\ Len(run.new_events) = Cardinality(Range(run.new_events))
    /\ Range(run.new_events) =
         {e \in Range(run.events) :
            /\ should_track(e) /\ should_notify_as_new_event(e)
            /\ \A p \in Previous(e) : ~should_track(p)}
    /\ \A e \in Range(run.events) :
         (\E p \in Previous(e) : ~Excluded(p)) => e \notin Range(run.new_events)
    /\ \A e \in Range(run.events) :
         (~Excluded(e) /\ ~TourTitle(e) /\ \E p \in Previous(e) : Excluded(p)) =>
           e \in Range(run.new_events)

\* the previous state has the url with the Children's/Family keyword, the
\* page shows it without: the event is reported as new
C14_Witness ==
  /\ Ran /\ ~run.first_run
  /\ \E e \in Range(run.new_events) : \E p \in Previous(e) : is_children_family(p)
  /\ Len(run.sent) = 1

\* the key of the canonical order
CanonicalKey(e) == <<e.year, e.month, e.day, e.time_et, lower(e.title), e.url>>

\* the list is in strictly ascending canonical order
Canonical(L) == \A i, j \in DOMAIN L : i < j => KeyLess(CanonicalKey(L[i]), CanonicalKey(L[j]))

\* C15: the new-events list and the baseline list are ordered by (year,
\* month, day, time label, lowercase title, url): listed events that agree
\* on date, time label and lowercase title are in ascending url order.
C15_CanonicalLists ==
  Ran =>
    /\ Canonical(run.new_events)
    /\ Canonical(run.baseline_list)
    /\ \A L \in {run.new_events, run.baseline_list} :
         \A i, j \in DOMAIN L :
           (i < j /\ NotifyKey(L[i]) = NotifyKey(L[j])) => strLess(L[i].url, L[j].url)

\* two new events that differ only in the url, shown in descending url
\* order on the page, are listed in ascending url order
C15_Witness ==
  /\ Ran /\ ~run.first_run
  /\ Len(run.new_events) = 2
  /\ NotifyKey(run.new_events[1]) = NotifyKey(run.new_events[2])
  /\ Len(run.cards) = 2
  /\ CardEvent(run.cards[1]) = run.new_events[2]
  /\ CardEvent(run.cards[2]) = run.new_events[1]

\* the load-more phase clicks at most 80 times and the scroll phase scrolls
\* at most 8 times
MatBounded == mat.clicks <= LoadMoreLimit /\ mat.scrolls <= ScrollLimit

\* C16: page materialization always ends and goes on to the extraction: at
\* most 80 clicks, at most 8 scrolls, and no timeout or failure in the
\* load-more phase or the scroll phase aborts the run.
C16_MaterializationCompletes ==
  /\ MatBounded
  /\ mat.pc = "raised" => mat.raised = "goto"

\* the run r sent an update notification
UpdateSent(r) == r.failed = "" /\ ~r.first_run /\ r.sent # <<>>

\* C17: every run that sends an update notification rewrites the state in
\* that run (its hash differs from the loaded one); if the next run extracts
\* the same event sequence it sends nothing and reports no changes.
C17_DeltaNotifiedOnce ==
  [][(run'.now # run.now /\ run'.failed = "") =>
       /\ UpdateSent(run') =>
            /\ run'.h # run'.old_hash
            /\ run'.saved
            /\ state_file'.hash = run'.h
       /\ (UpdateSent(run) /\ run'.events = run.events) =>
            /\ run'.sent = <<>>
            /\ startswith(run'.status, "no changes")]_vars

\* C18: the first run that completes writes the state with a non-empty
\* hash, and every later run has first_run = false: first-run semantics and
\* the baseline notification occur at most once.
C18_FirstRunOnce ==
  [][(run'.now # run.now /\ run'.failed = "") =>
       /\ first_runs = 0 =>
            /\ run'.first_run
            /\ run'.saved
            /\ state_file'.exists /\ state_file'.readable
            /\ state_file'.hash = run'.h
            /\ state_file'.hash # NoHash
       /\ first_runs > 0 =>
            /\ ~run'.first_run
            /\ \A n \in Range(run'.sent) : n.title # BaselineTitle
       /\ first_runs' <= 1]_vars

\* the second run is asked for a baseline and sends none: the first run
\* created the state
C18_Witness ==
  /\ Ran /\ run.now = 2
  /\ first_runs = 1
  /\ run.file.checked_at = 1 /\ run.file.hash # NoHash
  /\ run.notify_first_run
  /\ ~run.first_run
  /\ run.sent = <<>>

\* the serialization of the events
Dicts(events) == [i \in DOMAIN events |-> event_to_dict(events[i])]

\* C19: a state file written by the program has as hash the digest of its
\* own items; its items are the full event sequence, tracked and untracked,
\* of the last run that wrote it, in canonical order; the auxiliary JSON
\* output holds the same items.
C19_StateConsistent ==
  state_file.exists /\ state_file.readable =>
    /\ state_file.hash = sha256(state_file.items)
    /\ pretty_file.exists /\ pretty_file.items = state_file.items
    /\ md_file.exists /\ Len(md_file.lines) = Len(state_file.items) + 2
    /\ Ran => state_file.items = Dicts(run.events) /\ Canonical(run.events)
    /\ Ran /\ run.saved => state_file.checked_at = run.now
    /\ Ran /\ ~run.saved => state_file = run.file

\* a later run wrote a state of two events of which one is not tracked
C19_Witness ==
  /\ Ran /\ ~run.first_run /\ run.saved
  /\ Len(run.events) = 2
  /\ Len(run.current_tracked) = 1
  /\ state_file.checked_at = run.now
  /\ state_file.items = Dicts(run.events)
  /\ pretty_file.items = state_file.items

====
